---------------------------- MODULE Spec2Model ----------------------------
(***************************************************************************)
(* A model of srclib's `src api describe` and `src api list` commands      *)
(* (src/src/api_cmds.go): the build orchestration of ensureBuild, the      *)
(* source-unit lookup of getSourceUnitsWithFile, the scan of the units'    *)
(* graph artifacts, the local resolution of a ref's def and the two        *)
(* concurrent remote fetches of APIDescribeCmd.Execute.                    *)
(*                                                                         *)
(* A path is the sequence of its components; an absolute path starts with  *)
(* the component "/".  An optional value (a Go pointer that may be nil) is *)
(* a sequence of length 0 or 1.  An error is a string, "nil" for no error. *)
(***************************************************************************)
EXTENDS Integers, Sequences, FiniteSets, TLC

\* ------------------------------------------------------------------ bounds
\* Byte offsets of refs range over 0..MaxOffset; the queried offset over
\* 0..MaxOffset+1, so that one position lies past every ref.
MaxOffset == 1
\* The longest list of refs a graph artifact holds.
MaxRefs == 2
\* The longest list of defs, and of docs, a graph artifact holds.
MaxDefs == 2

\* ------------------------------------------------------- paths (filepath)
IsAbs(p) == p # <<>> /\ Head(p) = "/"

RECURSIVE CleanStack(_, _, _)
\* The component loop of filepath.Clean: "." and empty components are
\* dropped, ".." removes the component before it, stays when there is none
\* to remove in a relative path and is dropped at the root.
CleanStack(rooted, p, out) ==
    IF p = <<>> THEN out
    ELSE LET c == Head(p)
             r == Tail(p)
         IN  IF c = "." \/ c = "" \/ c = "/" THEN CleanStack(rooted, r, out)
             ELSE IF c = ".."
                  THEN IF out # <<>> /\ out[Len(out)] # ".."
                       THEN CleanStack(rooted, r, SubSeq(out, 1, Len(out) - 1))
                       ELSE IF rooted THEN CleanStack(rooted, r, out)
                       ELSE CleanStack(rooted, r, Append(out, ".."))
                  ELSE CleanStack(rooted, r, Append(out, c))

\* filepath.Clean: the shortest equivalent path; "." for the empty one.
Clean(p) ==
    IF IsAbs(p) THEN <<"/">> \o CleanStack(TRUE, Tail(p), <<>>)
    ELSE LET s == CleanStack(FALSE, p, <<>>)
         IN  IF s = <<>> THEN <<".">> ELSE s

\* filepath.Join of two elements: empty elements are ignored, the rest are
\* joined and cleaned; the empty string when both are empty.
Join(a, b) == IF a = <<>> /\ b = <<>> THEN <<>> ELSE Clean(a \o b)

RECURSIVE CommonPrefix(_, _)
CommonPrefix(a, b) ==
    IF a = <<>> \/ b = <<>> \/ Head(a) # Head(b) THEN 0
    ELSE 1 + CommonPrefix(Tail(a), Tail(b))

\* filepath.Rel(base, targ): targ relative to base, an error when one is
\* absolute and the other is not or when base still climbs with "..".
Rel(base, targ) ==
    LET b0 == Clean(base)
        t  == Clean(targ)
        b  == IF b0 = <<".">> THEN <<>> ELSE b0
        k  == CommonPrefix(b, t)
        rb == SubSeq(b, k + 1, Len(b))
        rt == SubSeq(t, k + 1, Len(t))
    IN  IF t = b0 THEN [ok |-> TRUE, path |-> <<".">>]
        ELSE IF IsAbs(b) # IsAbs(t) THEN [ok |-> FALSE, path |-> <<>>]
        ELSE IF rb # <<>> /\ Head(rb) = ".." THEN [ok |-> FALSE, path |-> <<>>]
        ELSE [ok |-> TRUE, path |-> [j \in 1..Len(rb) |-> ".."] \o rt]

\* ------------------------------------------------------------ repository
\* repo.RootDir and repo.URI() of the repository OpenRepo finds, and the
\* identifier of some other repository.
RootDir == <<"/", "r">>
RepoURI == "example.com/r"
ForeignRepo == "example.com/other"

FileA == <<"a">>
FileB == <<"b">>
FileC == <<"c">>


\* -------------------------------------------------- artifacts of the store
UnitNames == {"A", "B"}
UnitTypes == {"go", "py"}

\* Two source units of the repository; the second lists its member file
\* "a" in a form that is not path-normalized.
UnitA == [Name |-> "A", Type |-> "go", Files |-> <<FileA>>]
UnitB == [Name |-> "B", Type |-> "py", Files |-> <<FileB, <<".", "a">>>>]
\* A unit that lists the file "a" twice, in two forms.
UnitC == [Name |-> "B", Type |-> "go", Files |-> <<FileA, <<".", "a">>>>]

UnitSuffix == "unit.json"
GraphSuffix == "graph.json"

\* One file the store's walk yields: a unit manifest (status says whether it
\* opens and decodes) or some other artifact.
Manifest(u, st) == [suffix |-> UnitSuffix, status |-> st, unit |-> u]
GraphEntry(u) == [suffix |-> GraphSuffix, status |-> "ok", unit |-> u]

MkRef(file, start, end, loc) ==
    [File |-> file, Start |-> start, End |-> end,
     DefRepo |-> loc.DefRepo, DefUnit |-> loc.DefUnit,
     DefUnitType |-> loc.DefUnitType, DefPath |-> loc.DefPath]

MkDef(u, path, file) ==
    [Repo |-> "", Unit |-> u.Name, UnitType |-> u.Type, Path |-> path, File |-> file]

MkDoc(path, data) == [Path |-> path, Data |-> data]

\* A graph artifact (grapher.Output) as the store holds it: status "ok" when
\* it opens and decodes, else the failure of buildStore.Open or of Decode.
Graph(st, rs, ds, docs) == [status |-> st, Refs |-> rs, Defs |-> ds, Docs |-> docs]
MissingGraph == Graph("openerr", <<>>, <<>>, <<>>)

\* plan.SourceUnitDataFilename("graph", u): the graph file of a unit is named
\* by the unit's name and type.
GraphFile(name, type) == <<name, type>>

SeqsUpTo(S, n) == UNION {[1..k -> S] : k \in 0..n}

\* ---------------------------------------------------------------- worlds
\* The inputs of one invocation and the artifacts the store holds for the
\* commit once make has run, drawn from three bounded families.  Each family
\* varies one part of the world over all its values and fixes the rest.
Spans == {s \in (0..MaxOffset) \X (0..MaxOffset) : s[1] <= s[2]}
QueryOffsets == 0..(MaxOffset + 1)

SameUnitLoc == [DefRepo |-> "", DefUnit |-> "", DefUnitType |-> "", DefPath |-> "p"]

StdDefs(u) == <<MkDef(u, "p", FileA)>>
StdDocs == <<MkDoc("p", "doc p")>>
StdWalk == <<Manifest(UnitA, "ok"), GraphEntry(UnitA), Manifest(UnitB, "ok"), GraphEntry(UnitB)>>

World(dir, c, file, p, noex, wk, gA, gB) ==
    [commitDir |-> dir, cmd |-> c, File |-> file, StartByte |-> p, NoExamples |-> noex,
     walk |-> wk,
     graphs |-> [k \in UnitNames \X UnitTypes |->
                    IF k = GraphFile(UnitA.Name, UnitA.Type) THEN gA
                    ELSE IF k = GraphFile(UnitB.Name, UnitB.Type) THEN gB
                    ELSE MissingGraph]]

\* The (command, offset) pairs of a family: list takes no offset.
Queries == ({"describe"} \X QueryOffsets) \cup {<<"list", 0>>}

\* Scan family: both units hold file "a"; one unit's graph ranges over every
\* ref list (or fails to load) while the other ranges over a few.
ScanRefs == {MkRef(FileA, s[1], s[2], SameUnitLoc) : s \in Spans}
               \cup {MkRef(FileB, 0, MaxOffset, SameUnitLoc)}
FullScanGraphs(u) ==
    {Graph("ok", rs, StdDefs(u), StdDocs) : rs \in SeqsUpTo(ScanRefs, MaxRefs)}
        \cup {Graph("openerr", <<>>, <<>>, <<>>), Graph("decodeerr", <<>>, <<>>, <<>>)}
FewScanGraphs(u) ==
    {Graph("ok", <<>>, StdDefs(u), StdDocs),
     Graph("ok", <<MkRef(FileA, 0, MaxOffset, SameUnitLoc)>>, StdDefs(u), StdDocs),
     Graph("ok", <<MkRef(FileA, MaxOffset, MaxOffset, SameUnitLoc)>>, StdDefs(u), StdDocs),
     Graph("decodeerr", <<>>, <<>>, <<>>)}
ScanWorld(q, gA, gB) == World("absent", q[1], RootDir \o FileA, q[2], TRUE, StdWalk, gA, gB)

\* Resolve family: the ref under the cursor ranges over the definition
\* locators, the units' defs and docs over the lists of a small pool.
Locators ==
    {[DefRepo |-> r, DefUnit |-> u[1], DefUnitType |-> u[2], DefPath |-> "p"] :
        r \in {"", RepoURI, ForeignRepo},
        u \in {<<"", "">>, <<"B", "py">>, <<"A", "">>, <<"", "py">>}}
\* Shapes of a def list and a doc list: one ranges over all lists, the other
\* over a few.  A shape is a list of pool indices, instantiated per unit.
DefAt(u, n) == IF n = 1 THEN MkDef(u, "p", FileA)
               ELSE IF n = 2 THEN MkDef(u, "p", <<"s", "..", "b">>)
               ELSE MkDef(u, "q", FileA)
DocAt(n) == IF n = 1 THEN MkDoc("p", "doc 1")
            ELSE IF n = 2 THEN MkDoc("p", "doc 2")
            ELSE MkDoc("q", "doc 3")
PoolIdx == {1, 2, 3}
FewShapes == {<<>>, <<1>>, <<3, 2>>}
Contents ==
    (SeqsUpTo(PoolIdx, MaxDefs) \X FewShapes) \cup (FewShapes \X SeqsUpTo(PoolIdx, MaxDefs))
ResolveGraph(u, st, rs, c) ==
    IF st # "ok" THEN Graph(st, <<>>, <<>>, <<>>)
    ELSE Graph("ok", rs, [j \in 1..Len(c[1]) |-> DefAt(u, c[1][j])],
                         [j \in 1..Len(c[2]) |-> DocAt(c[2][j])])
ResolveWorld(noex, loc, c, stB) ==
    World("present", "describe", RootDir \o FileA, 0, noex, StdWalk,
          ResolveGraph(UnitA, "ok", <<MkRef(FileA, 0, MaxOffset, loc)>>, c),
          ResolveGraph(UnitB, stB, <<>>, c))

\* Index family: the state of the commit's artifact root, the query path and
\* the store's walk vary.
CommitDirs == {"present", "absent", "unreadable"}
QueryPaths ==
    {RootDir \o FileA, RootDir \o <<".", "a">>, RootDir \o <<"s", "..", "b">>,
     RootDir \o FileC, FileA}
Walks ==
    {StdWalk, <<>>, <<Manifest(UnitB, "ok"), GraphEntry(UnitB)>>,
     <<Manifest(UnitA, "ok"), Manifest(UnitB, "openerr")>>,
     <<Manifest(UnitA, "decodeerr"), Manifest(UnitB, "ok")>>,
     <<Manifest(UnitC, "ok"), GraphEntry(UnitC), Manifest(UnitA, "ok")>>}
IndexWorld(dir, c, f, wk) ==
    World(dir, c, f, 0, TRUE, wk,
          Graph("ok", <<MkRef(FileA, 0, MaxOffset, SameUnitLoc)>>, StdDefs(UnitA), StdDocs),
          Graph("ok", <<MkRef(FileB, 0, MaxOffset, SameUnitLoc),
                        MkRef(FileA, 0, 0, SameUnitLoc)>>, StdDefs(UnitB), StdDocs))

\* ----------------------------------------------------------------- state
VARIABLES
    commitDir,   \* the commit's artifact root: "present", "absent", "unreadable"
    walk,        \* the files fs.WalkFS yields under the commit path, in order
    graphs,      \* the graph artifact stored under each graph file name
    cmd,         \* "describe" or "list": the command of this invocation
    cFile,       \* c.File
    StartByte,   \* c.StartByte
    NoExamples,  \* c.NoExamples
    pc,          \* position of the main flow in Execute
    err,         \* the error Execute returns ("nil" while running or on success)
    out,         \* the documents written to standard output, in order
    log,         \* history: the store and collaborator calls made, in order
    units,       \* units returned by getSourceUnitsWithFile
    i,           \* index of the unit the scan loop is at
    ref,         \* describe's matched ref (optional)
    matchAt,     \* history: <<unit index, ref index>> of the match, <<0, 0>> if none
    refs,        \* list's collected refs
    resp,        \* describe's response: [Def (optional), Examples]
    defSpec,     \* the sourcegraph.DefSpec built from the ref (optional)
    defTask,     \* goroutine fetching the def: "idle", "running", "done", "failed"
    exTask,      \* goroutine fetching the examples, likewise
    reqs,        \* history: the remote requests issued, in order
    ended,       \* history: the goroutines that have ended, in order of ending
    argFile,     \* the --file argument the command was started with
    run,         \* number of the invocation under way, from 1
    prev,        \* history: what the invocation before this one returned (optional)
    callers      \* concurrent callers of ensureBuild (used by SpecRace only)

vars == <<commitDir, walk, graphs, cmd, cFile, StartByte, NoExamples, pc, err, out,
          log, units, i, ref, matchAt, refs, resp, defSpec, defTask, exTask, reqs,
          ended, argFile, run, prev, callers>>

store == <<walk, graphs>>
input == <<cmd, StartByte, NoExamples, argFile>>
frame == <<run, prev, callers>>
scan == <<units, i, ref, matchAt, refs>>
remote == <<resp, defSpec, defTask, exTask, reqs, ended>>

\* The state of an invocation about to run Execute in the world w.
InitIn(w) ==
    /\ commitDir = w.commitDir
    /\ walk = w.walk
    /\ graphs = w.graphs
    /\ cmd = w.cmd
    /\ cFile = w.File
    /\ StartByte = w.StartByte
    /\ NoExamples = w.NoExamples
    /\ pc = "start"
    /\ err = "nil"
    /\ out = <<>>
    /\ log = <<>>
    /\ units = <<>>
    /\ i = 1
    /\ ref = <<>>
    /\ matchAt = <<0, 0>>
    /\ refs = <<>>
    /\ resp = [Def |-> <<>>, Examples |-> <<>>]
    /\ defSpec = <<>>
    /\ defTask = "idle"
    /\ exTask = "idle"
    /\ reqs = <<>>
    /\ ended = <<>>
    /\ argFile = w.File
    /\ run = 1
    /\ prev = <<>>

Init ==
    /\ callers = <<>>
    /\ \/ \E q \in Queries, gA \in FullScanGraphs(UnitA), gB \in FewScanGraphs(UnitB) :
               InitIn(ScanWorld(q, gA, gB))
       \/ \E q \in Queries, gA \in FewScanGraphs(UnitA), gB \in FullScanGraphs(UnitB) :
               InitIn(ScanWorld(q, gA, gB))
       \/ \E noex \in BOOLEAN, loc \in Locators, c \in Contents, stB \in {"ok", "decodeerr"} :
               InitIn(ResolveWorld(noex, loc, c, stB))
       \/ \E dir \in CommitDirs, c \in {"describe", "list"}, f \in QueryPaths, wk \in Walks :
               InitIn(IndexWorld(dir, c, f, wk))


\* Execute returns the error e: the flow ends without touching anything else.
Return(e) == pc' = "done" /\ err' = e

\* ------------------------------------------ Execute, up to the build store
\* Lines 146-165 and 215-234: clean the path, open the repository, make the
\* path relative to its root, change directory, open the build store.  The
\* collaborators OpenRepo, os.Chdir and NewRepositoryStore may fail.
Prepare ==
    /\ pc = "start"
    /\ \E o \in {"ok", "OpenRepoErr", "ChdirErr", "StoreErr"} :
        LET cleaned == Clean(cFile)
            rel == Rel(RootDir, cleaned)
        IN  IF o = "OpenRepoErr" THEN cFile' = cleaned /\ Return(o)
            ELSE IF ~rel.ok THEN cFile' = rel.path /\ Return("RelErr")
            ELSE IF o # "ok" THEN cFile' = rel.path /\ Return(o)
            ELSE cFile' = rel.path /\ pc' = "ensureBuild" /\ err' = "nil"
    /\ UNCHANGED <<commitDir, store, frame, input, out, log, scan, remote>>

\* ------------------------------------------------------------ ensureBuild
\* buildStore.Stat of the commit path: nil when it exists, a not-exist error
\* when it does not, another error when the file system refuses the call.
Stat(dir) == IF dir = "present" THEN "ok"
             ELSE IF dir = "absent" THEN "notexist"
             ELSE "othererr"

\* os.IsNotExist(err) of line 80.
IsNotExistMutant(statErr) == statErr # "ok"
IsNotExist(statErr) == statErr = "notexist"

\* Lines 80-94: configure is next when the commit path does not exist, else
\* make is.
AfterStatMutant(statErr) == IF IsNotExist(statErr) THEN "configure" ELSE "units"
AfterStat(statErr) == IF IsNotExist(statErr) THEN "configure" ELSE "make"

EnsureBuildStatMutant ==
    /\ pc = "ensureBuild"
    /\ LET s == Stat(commitDir)
       IN  /\ log' = Append(log, <<"stat", s>>)
           /\ pc' = IF prev # <<>> /\ prev[1].err \in {"ConfigErr", "MakeErr"}
                    THEN "configure"
                    ELSE AfterStat(s)
    /\ UNCHANGED <<commitDir, store, frame, input, cFile, err, out, scan, remote>>

\* Line 80: the existence check.
EnsureBuildStat ==
    /\ pc = "ensureBuild"
    /\ LET s == Stat(commitDir)
       IN  /\ log' = Append(log, <<"stat", s>>)
           /\ pc' = AfterStat(s)
    /\ UNCHANGED <<commitDir, store, frame, input, cFile, err, out, scan, remote>>

\* What a finished build step leaves of the commit's artifact root: present
\* after a success, present or as before after a failure; the step does not
\* make an unreadable root readable.
StoreAfter(dir, e) ==
    IF dir = "unreadable" THEN {dir}
    ELSE IF e = "nil" THEN {"present"}
    ELSE {dir, "present"}

\* Lines 86-88: a configure error is returned as it is, else make is next.
AfterConfigure(e) ==
    IF e # "nil" THEN [pc |-> "done", err |-> e] ELSE [pc |-> "make", err |-> "nil"]

\* Lines 81-88: configCmd.Execute.
ConfigCmdExecute ==
    /\ pc = "configure"
    /\ \E e \in {"nil", "ConfigErr"} :
        /\ log' = Append(log, <<"configure", e>>)
        /\ commitDir' \in StoreAfter(commitDir, e)
        /\ pc' = AfterConfigure(e).pc
        /\ err' = AfterConfigure(e).err
    /\ UNCHANGED <<store, frame, input, cFile, out, scan, remote>>

\* Lines 98-102: a make error is returned as it is, else ensureBuild returns
\* nil and Execute goes on to look up the units (lines 167-171, 236-240).
AfterMakeMutant(e) == [pc |-> "units", err |-> "nil"]
AfterMake(e) ==
    IF e # "nil" THEN [pc |-> "done", err |-> e] ELSE [pc |-> "units", err |-> "nil"]

\* Lines 94-100: makeCmd.Execute, run whatever the existence check said.
MakeCmdExecute ==
    /\ pc = "make"
    /\ \E e \in {"nil", "MakeErr"} :
        /\ log' = Append(log, <<"make", e>>)
        /\ commitDir' \in StoreAfter(commitDir, e)
        /\ pc' = AfterMake(e).pc
        /\ err' = AfterMake(e).err
    /\ UNCHANGED <<store, frame, input, cFile, out, scan, remote>>

\* ------------------------------------------------- getSourceUnitsWithFile
\* Lines 116-120: the walked files with the unit suffix.
UnitFilesOf(wk) == SelectSeq(wk, LAMBDA f : f.suffix = UnitSuffix)

HasFileMutant(u, filename) == \E j \in 1..Len(u.Files) : u.Files[j] = filename

\* Lines 134-139: the unit holds the file when some member path, cleaned,
\* equals the (cleaned) file name.
HasFile(u, filename) == \E j \in 1..Len(u.Files) : Clean(u.Files[j]) = filename

RECURSIVE UnitsLoop(_, _, _)
\* Lines 124-140: open and decode each manifest in turn; the first failure
\* ends the lookup with its error.
UnitsLoop(unitFiles, filename, acc) ==
    IF unitFiles = <<>> THEN [units |-> acc, err |-> "nil"]
    ELSE LET f == Head(unitFiles)
         IN  IF f.status = "openerr" THEN [units |-> <<>>, err |-> "UnitOpenErr"]
             ELSE IF f.status = "decodeerr" THEN [units |-> <<>>, err |-> "UnitDecodeErr"]
             ELSE UnitsLoop(Tail(unitFiles), filename,
                            IF HasFile(f.unit, filename) THEN Append(acc, f.unit) ELSE acc)

getSourceUnitsWithFile(wk, filename) == UnitsLoop(UnitFilesOf(wk), Clean(filename), <<>>)

GetUnitsMutant ==
    /\ pc = "units"
    /\ LET r == getSourceUnitsWithFile(walk, cFile)
       IN  /\ log' = Append(log, <<"units", r.err>>)
           /\ units' = r.units
           /\ out' = IF r.err # "nil" THEN Append(out, [kind |-> "empty"]) ELSE out
           /\ IF r.err # "nil" THEN Return(r.err) ELSE pc' = "scan" /\ err' = "nil"
    /\ UNCHANGED <<commitDir, store, frame, input, cFile, i, ref, matchAt, refs, remote>>

\* Lines 171-174 and 240-243.
GetUnits ==
    /\ pc = "units"
    /\ LET r == getSourceUnitsWithFile(walk, cFile)
       IN  /\ log' = Append(log, <<"units", r.err>>)
           /\ units' = r.units
           /\ IF r.err # "nil" THEN Return(r.err) ELSE pc' = "scan" /\ err' = "nil"
    /\ UNCHANGED <<commitDir, store, frame, input, cFile, out, i, ref, matchAt, refs, remote>>

\* -------------------------------------------------------- loading a graph
\* buildStore.Open and json Decode of a unit's graph file: the error, "nil"
\* when the artifact loads.
LoadErr(g) == IF g.status = "openerr" THEN "GraphOpenErr"
              ELSE IF g.status = "decodeerr" THEN "GraphDecodeErr"
              ELSE "nil"

LoadEvent(name, type) == <<"graph", name, type>>

\* ------------------------------------------------- the scan of the units
\* Line 272: the ref is in the file and its span holds the offset, both ends
\* included.
CoversMutant(r, file, p) == file = r.File /\ p >= r.Start /\ p < r.End
Covers(r, file, p) == file = r.File /\ p >= r.Start /\ p <= r.End

\* Lines 271-281: the index of the first ref of the list that covers the
\* position, 0 when none does.
FirstMatchMutant(rs, file, p) ==
    IF \E k \in 1..Len(rs) : Covers(rs[k], file, p)
    THEN CHOOSE k \in 1..Len(rs) :
            /\ Covers(rs[k], file, p)
            /\ \A j \in (k + 1)..Len(rs) : ~Covers(rs[j], file, p)
    ELSE 0
FirstMatch(rs, file, p) ==
    IF \E k \in 1..Len(rs) : Covers(rs[k], file, p)
    THEN CHOOSE k \in 1..Len(rs) :
            /\ Covers(rs[k], file, p)
            /\ \A j \in 1..(k - 1) : ~Covers(rs[j], file, p)
    ELSE 0

DefaultUnitMutant(r, u) == [r EXCEPT !.DefUnit = IF @ = "" THEN u.Name ELSE @]

\* Lines 274-279: empty defining-unit fields take the scanned unit's.
DefaultUnit(r, u) ==
    [r EXCEPT !.DefUnit = IF @ = "" THEN u.Name ELSE @,
              !.DefUnitType = IF @ = "" THEN u.Type ELSE @]

DescribeScanUnitMutant ==
    /\ pc = "scan" /\ cmd = "describe" /\ i <= Len(units)
    /\ LET u == units[i]
           g == graphs[GraphFile(u.Name, u.Type)]
           k == FirstMatch(g.Refs, cFile, StartByte)
       IN  /\ log' = Append(log, LoadEvent(u.Name, u.Type))
           /\ IF LoadErr(g) # "nil"
              THEN Return(LoadErr(g)) /\ UNCHANGED <<i, ref, matchAt>>
              ELSE IF k = 0 \/ ref # <<>>
              THEN /\ i' = IF i = Len(units) /\ ref # <<>> THEN i ELSE i + 1
                   /\ pc' = IF i = Len(units) /\ ref # <<>> THEN "resolve" ELSE pc
                   /\ UNCHANGED <<err, ref, matchAt>>
              ELSE /\ ref' = <<DefaultUnit(g.Refs[k], u)>>
                   /\ matchAt' = <<i, k>>
                   /\ i' = IF i = Len(units) THEN i ELSE i + 1
                   /\ pc' = IF i = Len(units) THEN "resolve" ELSE pc
                   /\ UNCHANGED err
    /\ UNCHANGED <<commitDir, store, frame, input, cFile, out, units, refs, remote>>

\* Lines 260-283: one iteration of describe's loop over the units: load the
\* unit's graph, return its error if it fails, else stop at the first
\* covering ref or go on to the next unit.
DescribeScanUnit ==
    /\ pc = "scan" /\ cmd = "describe" /\ i <= Len(units)
    /\ LET u == units[i]
           g == graphs[GraphFile(u.Name, u.Type)]
           k == FirstMatch(g.Refs, cFile, StartByte)
       IN  /\ log' = Append(log, LoadEvent(u.Name, u.Type))
           /\ IF LoadErr(g) # "nil"
              THEN Return(LoadErr(g)) /\ UNCHANGED <<i, ref, matchAt>>
              ELSE IF k = 0
              THEN i' = i + 1 /\ UNCHANGED <<pc, err, ref, matchAt>>
              ELSE /\ ref' = <<DefaultUnit(g.Refs[k], u)>>
                   /\ matchAt' = <<i, k>>
                   /\ pc' = "resolve"
                   /\ UNCHANGED <<i, err>>
    /\ UNCHANGED <<commitDir, store, frame, input, cFile, out, units, refs, remote>>

\* The document fmt.Println(`{}`) writes.
EmptyDoc == [kind |-> "empty"]

\* Lines 285-291: no ref was found: print the empty object, return nil.
NoRefOutcomeMutant == [out |-> <<>>, err |-> "NoRefErr"]
NoRefOutcome == [out |-> <<EmptyDoc>>, err |-> "nil"]

NoRef ==
    /\ pc = "scan" /\ cmd = "describe" /\ i > Len(units)
    /\ ref = <<>>
    /\ out' = out \o NoRefOutcome.out
    /\ Return(NoRefOutcome.err)
    /\ UNCHANGED <<commitDir, store, frame, input, cFile, log, scan, remote>>

RefsInFileMutant(rs, file) ==
    SelectSeq(rs, LAMBDA r : file = r.File /\ r.Start <= StartByte /\ StartByte <= r.End)

\* Lines 201-205: the refs of a graph that are in the file.
RefsInFile(rs, file) == SelectSeq(rs, LAMBDA r : file = r.File)

\* Lines 190-206: one iteration of list's loop over the units.
ListScanUnit ==
    /\ pc = "scan" /\ cmd = "list" /\ i <= Len(units)
    /\ LET u == units[i]
           g == graphs[GraphFile(u.Name, u.Type)]
       IN  /\ log' = Append(log, LoadEvent(u.Name, u.Type))
           /\ IF LoadErr(g) # "nil"
              THEN Return(LoadErr(g)) /\ UNCHANGED <<i, refs>>
              ELSE /\ refs' = refs \o RefsInFile(g.Refs, cFile)
                   /\ i' = i + 1
                   /\ UNCHANGED <<pc, err>>
    /\ UNCHANGED <<commitDir, store, frame, input, cFile, out, units, ref, matchAt, remote>>

RefsDoc(rs) == [kind |-> "refs", refs |-> rs]

\* Lines 208-211: encode the refs to standard output.
ListEncode ==
    /\ pc = "scan" /\ cmd = "list" /\ i > Len(units)
    /\ \E e \in {"nil", "EncodeErr"} :
        /\ out' = IF e = "nil" THEN Append(out, RefsDoc(refs)) ELSE out
        /\ Return(e)
    /\ UNCHANGED <<commitDir, store, frame, input, cFile, log, scan, remote>>

\* ------------------------------------------------------- local resolution
DefaultRepoMutant(r) == r

\* Lines 293-295: an empty defining repository is the current one.
DefaultRepo(r) == [r EXCEPT !.DefRepo = IF @ = "" THEN RepoURI ELSE @]

\* Lines 316-321: the index of the first def with the path, 0 when none.
FirstDef(ds, path) ==
    IF \E k \in 1..Len(ds) : ds[k].Path = path
    THEN CHOOSE k \in 1..Len(ds) :
            /\ ds[k].Path = path
            /\ \A j \in 1..(k - 1) : ds[j].Path # path
    ELSE 0

RECURSIVE DocHTMLLoop(_, _, _)
\* Lines 323-327: every doc with the path overwrites DocHTML in turn.
DocHTMLLoop(docs, path, html) ==
    IF docs = <<>> THEN html
    ELSE DocHTMLLoop(Tail(docs), path,
                     IF Head(docs).Path = path THEN Head(docs).Data ELSE html)

\* Line 330: the def's file, joined to the repository root.
AbsFileMutant(file) == file
AbsFile(file) == Join(RootDir, file)

\* Lines 316-331: resp.Def after the lookup in a loaded graph.
LocalDef(g, path) ==
    LET k == FirstDef(g.Defs, path)
    IN  IF k = 0 THEN <<>>
        ELSE <<[Def |-> [g.Defs[k] EXCEPT !.File = AbsFile(@)],
                DocHTML |-> DocHTMLLoop(g.Docs, path, "")]>>

\* Lines 337-342.
DefSpecOf(r) ==
    [Repo |-> r.DefRepo, UnitType |-> r.DefUnitType, Unit |-> r.DefUnit, Path |-> r.DefPath]

\* Lines 293-342: default the repository; when the def is in the current
\* repository load the defining unit's graph, return its error if it fails,
\* else look the def up; build the DefSpec.
ResolveLocal ==
    /\ pc = "resolve"
    /\ LET r == DefaultRepo(ref[1])
           defInCurrentRepo == r.DefRepo = RepoURI
           g == graphs[GraphFile(r.DefUnit, r.DefUnitType)]
       IN  /\ ref' = <<r>>
           /\ IF defInCurrentRepo
              THEN /\ log' = Append(log, LoadEvent(r.DefUnit, r.DefUnitType))
                   /\ IF LoadErr(g) # "nil"
                      THEN Return(LoadErr(g)) /\ UNCHANGED <<resp, defSpec>>
                      ELSE /\ resp' = [resp EXCEPT !.Def = LocalDef(g, r.DefPath)]
                           /\ defSpec' = <<DefSpecOf(r)>>
                           /\ pc' = "spawnDef"
                           /\ UNCHANGED err
              ELSE /\ defSpec' = <<DefSpecOf(r)>>
                   /\ pc' = "spawnDef"
                   /\ UNCHANGED <<log, resp, err>>
    /\ UNCHANGED <<commitDir, store, frame, input, cFile, out, units, i, matchAt, refs,
                   defTask, exTask, reqs, ended>>

\* ------------------------------------------------------ the remote client
\* What apiclient.Defs.Get and Defs.ListExamples answer for a DefSpec when
\* they succeed.
RemoteDef(sp) ==
    [Def |-> [Repo |-> sp.Repo, Unit |-> sp.Unit, UnitType |-> sp.UnitType,
              Path |-> sp.Path, File |-> <<"remote">>],
     DocHTML |-> "remote doc"]
RemoteExamples(sp) == <<[Repo |-> sp.Repo, Unit |-> sp.Unit, UnitType |-> sp.UnitType,
                         Path |-> sp.Path]>>

Request(op, sp) == [op |-> op, spec |-> sp]

\* Line 346: the def is fetched remotely when none was resolved locally.
NeedsRemoteDefMutant(def) == TRUE
NeedsRemoteDef(def) == def = <<>>

\* Lines 346-358: start the goroutine that fetches the def.
SpawnDef ==
    /\ pc = "spawnDef"
    /\ IF NeedsRemoteDef(resp.Def)
       THEN defTask' = "running" /\ reqs' = Append(reqs, Request("Defs.Get", defSpec[1]))
       ELSE UNCHANGED <<defTask, reqs>>
    /\ pc' = "spawnExamples"
    /\ UNCHANGED <<commitDir, store, frame, input, cFile, err, out, log, scan, resp, defSpec,
                   exTask, ended>>

SpawnExamplesMutant ==
    /\ pc = "spawnExamples"
    /\ IF ~NoExamples /\ resp.Def = <<>>
       THEN exTask' = "running"
            /\ reqs' = Append(reqs, Request("Defs.ListExamples", defSpec[1]))
       ELSE UNCHANGED <<exTask, reqs>>
    /\ pc' = "wait"
    /\ UNCHANGED <<commitDir, store, frame, input, cFile, err, out, log, scan, resp, defSpec,
                   defTask, ended>>

\* Lines 360-373: start the goroutine that fetches the examples.
SpawnExamples ==
    /\ pc = "spawnExamples"
    /\ IF ~NoExamples
       THEN exTask' = "running"
            /\ reqs' = Append(reqs, Request("Defs.ListExamples", defSpec[1]))
       ELSE UNCHANGED <<exTask, reqs>>
    /\ pc' = "wait"
    /\ UNCHANGED <<commitDir, store, frame, input, cFile, err, out, log, scan, resp, defSpec,
                   defTask, ended>>

DefsGetReturnMutant ==
    /\ defTask = "running"
    /\ \E ok \in BOOLEAN :
        /\ resp' = [resp EXCEPT !.Def = IF ok THEN <<RemoteDef(defSpec[1])>> ELSE <<>>]
        /\ defTask' = IF ok THEN "done" ELSE "failed"
        /\ ended' = Append(ended, "def")
        /\ IF ok THEN UNCHANGED <<pc, err>> ELSE Return("RemoteErr")
    /\ UNCHANGED <<commitDir, store, frame, input, cFile, out, log, scan, defSpec,
                   exTask, reqs>>

\* Lines 351-356: Defs.Get returns; its result, nil on error, is stored in
\* resp.Def and the goroutine ends.
DefsGetReturn ==
    /\ defTask = "running"
    /\ \E ok \in BOOLEAN :
        /\ resp' = [resp EXCEPT !.Def = IF ok THEN <<RemoteDef(defSpec[1])>> ELSE <<>>]
        /\ defTask' = IF ok THEN "done" ELSE "failed"
        /\ ended' = Append(ended, "def")
    /\ UNCHANGED <<commitDir, store, frame, input, cFile, pc, err, out, log, scan, defSpec,
                   exTask, reqs>>

ListExamplesReturnMutant ==
    /\ exTask = "running"
    /\ \E ok \in BOOLEAN :
        /\ resp' = IF ok THEN [resp EXCEPT !.Examples = RemoteExamples(defSpec[1])]
                   ELSE [Def |-> <<>>, Examples |-> <<>>]
        /\ exTask' = IF ok THEN "done" ELSE "failed"
        /\ ended' = Append(ended, "examples")
    /\ UNCHANGED <<commitDir, store, frame, input, cFile, pc, err, out, log, scan, defSpec,
                   defTask, reqs>>

\* Lines 363-371: Defs.ListExamples returns; its result, nil on error, is
\* stored in resp.Examples and the goroutine ends.
ListExamplesReturn ==
    /\ exTask = "running"
    /\ \E ok \in BOOLEAN :
        /\ resp' = [resp EXCEPT !.Examples = IF ok THEN RemoteExamples(defSpec[1]) ELSE <<>>]
        /\ exTask' = IF ok THEN "done" ELSE "failed"
        /\ ended' = Append(ended, "examples")
    /\ UNCHANGED <<commitDir, store, frame, input, cFile, pc, err, out, log, scan, defSpec,
                   defTask, reqs>>

WaitMutant ==
    /\ pc = "wait"
    /\ defTask # "running"
    /\ pc' = "encode"
    /\ UNCHANGED <<commitDir, store, frame, input, cFile, err, out, log, scan, remote>>

WaitSucceededMutant ==
    /\ pc = "wait"
    /\ defTask \in {"idle", "done"} /\ exTask \in {"idle", "done"}
    /\ pc' = "encode"
    /\ UNCHANGED <<commitDir, store, frame, input, cFile, err, out, log, scan, remote>>

\* Line 375: wg.Wait returns once every started goroutine has ended.
Wait ==
    /\ pc = "wait"
    /\ defTask # "running" /\ exTask # "running"
    /\ pc' = "encode"
    /\ UNCHANGED <<commitDir, store, frame, input, cFile, err, out, log, scan, remote>>

RespDoc(r) == [kind |-> "resp", Def |-> r.Def, Examples |-> r.Examples]

\* Lines 377-380: encode the response to standard output.
Encode ==
    /\ pc = "encode"
    /\ \E e \in {"nil", "EncodeErr"} :
        /\ out' = IF e = "nil" THEN Append(out, RespDoc(resp)) ELSE out
        /\ Return(e)
    /\ UNCHANGED <<commitDir, store, frame, input, cFile, log, scan, remote>>

\* ---------------------------------------------------------- specification
Next ==
    \/ Prepare
    \/ EnsureBuildStat
    \/ ConfigCmdExecute
    \/ MakeCmdExecute
    \/ GetUnits
    \/ DescribeScanUnit
    \/ NoRef
    \/ ListScanUnit
    \/ ListEncode
    \/ ResolveLocal
    \/ SpawnDef
    \/ SpawnExamples
    \/ DefsGetReturn
    \/ ListExamplesReturn
    \/ Wait
    \/ Encode

Spec == Init /\ [][Next]_vars

\* ------------------------------------------- two successive invocations
ReinvokeMutant ==
    /\ pc = "done" /\ run = 1
    /\ prev' = <<[out |-> out, err |-> err, dir |-> commitDir]>>
    /\ run' = 2
    /\ cFile' = argFile
    /\ pc' = "start" /\ err' = "nil" /\ out' = <<>> /\ log' = <<>>
    /\ units' = <<>> /\ i' = 1 /\ ref' = <<>> /\ matchAt' = <<0, 0>>
    /\ UNCHANGED <<commitDir, store, input, callers, refs, remote>>

\* Lines 145-146 and 189: the command is run a second time on the same
\* argument once the first run has returned; Execute starts with fresh
\* locals and a fresh standard output while the store is as the first run
\* left it.  The first run's output and error and the state it left the
\* commit's artifact root in are kept for comparison.
Reinvoke ==
    /\ pc = "done" /\ run = 1
    /\ prev' = <<[out |-> out, err |-> err, dir |-> commitDir]>>
    /\ run' = 2
    /\ cFile' = argFile
    /\ pc' = "start" /\ err' = "nil" /\ out' = <<>> /\ log' = <<>>
    /\ units' = <<>> /\ i' = 1 /\ ref' = <<>> /\ matchAt' = <<0, 0>> /\ refs' = <<>>
    /\ UNCHANGED <<commitDir, store, input, callers, remote>>

InitTwice == Init /\ cmd = "list"

NextTwice ==
    \/ Prepare
    \/ EnsureBuildStat
    \/ ConfigCmdExecute
    \/ MakeCmdExecute
    \/ GetUnits
    \/ ListScanUnit
    \/ ListEncode
    \/ Reinvoke

SpecTwice == InitTwice /\ [][NextTwice]_vars

\* ------------------------------------- two concurrent callers of ensureBuild
\* ensureBuild (lines 72-103) run by two callers at once for the same
\* repository and commit.  Each caller has its own position, the result of
\* its own existence check and its own error; the commit's artifact root is
\* shared.  The log records the callers' steps in the order they happen.
Callers == {1, 2}

InitRace ==
    /\ \E dir \in CommitDirs : InitIn(IndexWorld(dir, "list", RootDir \o FileA, StdWalk))
    /\ callers = [c \in Callers |-> [pc |-> "ensureBuild", stat |-> "", err |-> "nil"]]

RaceStatMutant(c) ==
    /\ callers[c].pc = "ensureBuild"
    /\ \A d \in Callers \ {c} : callers[d].pc \notin {"configure", "make"}
    /\ LET s == Stat(commitDir)
       IN  /\ log' = Append(log, <<"stat", s, c>>)
           /\ callers' = [callers EXCEPT ![c].pc = AfterStat(s), ![c].stat = s]
    /\ UNCHANGED <<commitDir, store, input, run, prev, cFile, pc, err, out, scan, remote>>

\* Line 80: caller c's existence check; nothing makes it wait for another
\* caller.
RaceStat(c) ==
    /\ callers[c].pc = "ensureBuild"
    /\ LET s == Stat(commitDir)
       IN  /\ log' = Append(log, <<"stat", s, c>>)
           /\ callers' = [callers EXCEPT ![c].pc = AfterStat(s), ![c].stat = s]
    /\ UNCHANGED <<commitDir, store, input, run, prev, cFile, pc, err, out, scan, remote>>

\* Lines 81-88: caller c's configure.
RaceConfigure(c) ==
    /\ callers[c].pc = "configure"
    /\ \E e \in {"nil", "ConfigErr"} :
        /\ log' = Append(log, <<"configure", e, c>>)
        /\ commitDir' \in StoreAfter(commitDir, e)
        /\ callers' = [callers EXCEPT ![c].pc = AfterConfigure(e).pc,
                                      ![c].err = AfterConfigure(e).err]
    /\ UNCHANGED <<store, input, run, prev, cFile, pc, err, out, scan, remote>>

\* Lines 94-102: caller c's make; ensureBuild then returns to the caller.
RaceMake(c) ==
    /\ callers[c].pc = "make"
    /\ \E e \in {"nil", "MakeErr"} :
        /\ log' = Append(log, <<"make", e, c>>)
        /\ commitDir' \in StoreAfter(commitDir, e)
        /\ callers' = [callers EXCEPT ![c].pc = "done", ![c].err = AfterMake(e).err]
    /\ UNCHANGED <<store, input, run, prev, cFile, pc, err, out, scan, remote>>

NextRace == \E c \in Callers : RaceStat(c) \/ RaceConfigure(c) \/ RaceMake(c)

SpecRace == InitRace /\ [][NextRace]_vars

\* --------------------------------------------------------- fair scheduling
\* describe on the worlds of the scan family with few graphs and of the
\* resolve family with few def and doc lists.
InitLive ==
    /\ callers = <<>>
    /\ \/ \E p \in QueryOffsets, gA \in FewScanGraphs(UnitA), gB \in FewScanGraphs(UnitB) :
               InitIn(ScanWorld(<<"describe", p>>, gA, gB))
       \/ \E noex \in BOOLEAN, loc \in Locators, c \in FewShapes \X FewShapes,
             stB \in {"ok", "decodeerr"} :
               InitIn(ResolveWorld(noex, loc, c, stB))

\* The steps of the goroutine that runs APIDescribeCmd.Execute: the
\* scheduler runs it whenever it is not blocked.
DescribeFlow ==
    \/ Prepare
    \/ EnsureBuildStat
    \/ ConfigCmdExecute
    \/ MakeCmdExecute
    \/ GetUnits
    \/ DescribeScanUnit
    \/ NoRef
    \/ ResolveLocal
    \/ SpawnDef
    \/ SpawnExamples
    \/ Wait
    \/ Encode

NextLive ==
    \/ DescribeFlow
    \/ DefsGetReturn
    \/ ListExamplesReturn

\* Execute's goroutine keeps running, and every remote call that was started
\* returns, with a result or with an error.
SpecLive ==
    /\ InitLive /\ [][NextLive]_vars
    /\ WF_vars(DescribeFlow)
    /\ WF_vars(DefsGetReturn)
    /\ WF_vars(ListExamplesReturn)

\* ============================================================ properties
LogHas(e) == \E j \in 1..Len(log) : log[j] = e
Count(kind) == Cardinality({j \in 1..Len(log) : log[j][1] = kind})
ReqsOf(op) == SelectSeq(reqs, LAMBDA q : q.op = op)

\* The graph artifact of the j-th candidate unit.
GraphOfUnit(j) == graphs[<<units[j].Name, units[j].Type>>]

\* The places <<unit index, ref index>> of the refs of the candidate units
\* whose graphs load.
RefPlaces ==
    {pl \in (1..Len(units)) \X (1..MaxRefs) :
        /\ GraphOfUnit(pl[1]).status = "ok"
        /\ pl[2] <= Len(GraphOfUnit(pl[1]).Refs)}
RefAtPlace(pl) == GraphOfUnit(pl[1]).Refs[pl[2]]

\* The ref at the place is in the queried file and its span holds the
\* queried offset, both ends included.
CoversQuery(pl) ==
    /\ RefAtPlace(pl).File = cFile
    /\ RefAtPlace(pl).Start <= StartByte
    /\ StartByte <= RefAtPlace(pl).End

\* The place comes before the other in the traversal: units in index order,
\* within a unit refs in artifact order.
Before(p1, p2) == p1[1] < p2[1] \/ (p1[1] = p2[1] /\ p1[2] < p2[2])

Matched == matchAt # <<0, 0>>
\* describe's scan ran to its end: it matched a ref or found none.
ScanConcluded ==
    /\ cmd = "describe"
    /\ \/ Matched
       \/ pc = "done" /\ LogHas(<<"units", "nil">>) /\ err = "nil"

\* C1: for every ref r with r.Start <= r.End in a candidate unit's graph,
\* describe selects r only if r is in the queried file and r.Start <= p <=
\* r.End, and it does select r when r is such and no other ref covers p; the
\* selected ref keeps r's file and span.
C1_MatchIffCovered ==
    \A pl \in RefPlaces :
        RefAtPlace(pl).Start <= RefAtPlace(pl).End =>
            /\ matchAt = pl =>
                /\ CoversQuery(pl)
                /\ ref # <<>>
                /\ ref[1].File = RefAtPlace(pl).File
                /\ ref[1].Start = RefAtPlace(pl).Start
                /\ ref[1].End = RefAtPlace(pl).End
            /\ ( /\ ScanConcluded
                 /\ CoversQuery(pl)
                 /\ \A o \in RefPlaces \ {pl} : ~CoversQuery(o) ) => matchAt = pl

\* A ref wider than one byte is matched at its last byte.
C1_Witness ==
    /\ Matched
    /\ ref[1].Start < ref[1].End
    /\ StartByte = ref[1].End

\* C2: when several refs of the candidate units cover the queried position,
\* describe resolves the one that comes first in the traversal: no covering
\* ref comes before the matched one.
C2_FirstInTraversal ==
    Matched =>
        /\ matchAt \in RefPlaces
        /\ CoversQuery(matchAt)
        /\ \A o \in RefPlaces : CoversQuery(o) => ~Before(o, matchAt)

\* The matched ref is followed, in the same unit, by a narrower covering ref.
C2_Witness ==
    /\ Matched
    /\ \E o \in RefPlaces :
        /\ o[1] = matchAt[1]
        /\ Before(matchAt, o)
        /\ CoversQuery(o)
        /\ RefAtPlace(o).End - RefAtPlace(o).Start
             < RefAtPlace(matchAt).End - RefAtPlace(matchAt).Start

\* Every candidate unit's graph loads and none of their refs covers the
\* queried position.
NoCoveringRef ==
    /\ \A j \in 1..Len(units) : GraphOfUnit(j).status = "ok"
    /\ \A pl \in RefPlaces : ~CoversQuery(pl)

\* C3: when describe has looked the units up and no ref of a candidate unit
\* covers the queried position (also when there is no candidate unit), it
\* ends with no error, has written exactly the empty object and has issued no
\* remote request.
C3_EmptyResult ==
    ( /\ cmd = "describe"
      /\ pc = "done"
      /\ LogHas(<<"units", "nil">>)
      /\ NoCoveringRef ) =>
        /\ err = "nil"
        /\ out = <<EmptyDoc>>
        /\ reqs = <<>>
        /\ defTask = "idle" /\ exTask = "idle"

\* describe ended on the empty object although a candidate unit has a ref in
\* the queried file.
C3_Witness ==
    /\ cmd = "describe"
    /\ pc = "done"
    /\ out = <<EmptyDoc>>
    /\ \E pl \in RefPlaces : RefAtPlace(pl).File = cFile

\* The existence check has been made and its branch taken: configure, if it
\* was to run, has run.
ConfigureDecided == Len(log) >= 1 /\ pc # "configure"

\* C4: in ensureBuild configure is executed iff the existence check reported
\* that the commit's artifact root does not exist, and at most once; when the
\* check did not report that, configure is not executed in the invocation.
C4_ConfigureIffNotExist ==
    /\ Count("configure") <= 1
    /\ Count("configure") = 1 => log[1] = <<"stat", "notexist">>
    /\ ConfigureDecided => (Count("configure") = 1 <=> log[1] = <<"stat", "notexist">>)
    /\ Len(log) >= 1 => log[1][1] = "stat"

\* Configure ran after the check found the commit's root absent.
C4_Witness ==
    /\ pc = "make"
    /\ log = <<<<"stat", "notexist">>, <<"configure", "nil">>>>

\* ensureBuild is over: Execute is past the build.
BuildOver == Len(log) >= 1 /\ pc \notin {"ensureBuild", "configure", "make"}

\* C5: every ensureBuild invocation that does not abort in configure runs
\* make exactly once, whatever the existence check reported, and never more
\* than once; a configure that ran has returned no error before make starts.
C5_MakeAlwaysOnce ==
    /\ Count("make") <= 1
    /\ (BuildOver /\ ~LogHas(<<"configure", "ConfigErr">>)) => Count("make") = 1
    /\ \A j \in 1..Len(log) :
        log[j][1] = "make" =>
            \A k \in 1..Len(log) :
                log[k][1] = "configure" => k < j /\ log[k] = <<"configure", "nil">>

\* Make ran although the commit was already in the store.
C5_Witness ==
    /\ pc = "units"
    /\ log = <<<<"stat", "ok">>, <<"make", "nil">>>>

\* C6: a failure of configure or of make ends the query at once with that
\* same error: it is the last call made (so make does not follow a failed
\* configure, no unit is enumerated and no graph loaded), no remote request is
\* issued and nothing is written.
C6_BuildErrorAborts ==
    \A j \in 1..Len(log) :
        (log[j][1] \in {"configure", "make"} /\ log[j][2] # "nil") =>
            /\ j = Len(log)
            /\ pc = "done"
            /\ err = log[j][2]
            /\ units = <<>> /\ ref = <<>> /\ refs = <<>>
            /\ reqs = <<>> /\ defTask = "idle" /\ exTask = "idle"
            /\ out = <<>>

\* Make failed after a successful configure and the query returned its error.
C6_Witness ==
    /\ pc = "done"
    /\ err = "MakeErr"
    /\ log = <<<<"stat", "notexist">>, <<"configure", "nil">>, <<"make", "MakeErr">>>>

\* The ref of the graph artifact that describe matched, as the artifact
\* holds it, and the unit it was found in.
RawRef == RefAtPlace(matchAt)
RefUnit == units[matchAt[1]]

\* The ref's target: its repository, and the name and type of its defining
\* unit, an empty field standing for the current repository and for the
\* referencing unit.
TargetRepo == IF RawRef.DefRepo = "" THEN RepoURI ELSE RawRef.DefRepo
TargetUnit == IF RawRef.DefUnit = "" THEN RefUnit.Name ELSE RawRef.DefUnit
TargetUnitType == IF RawRef.DefUnitType = "" THEN RefUnit.Type ELSE RawRef.DefUnitType
TargetGraph == graphs[<<TargetUnit, TargetUnitType>>]

\* The defs and the docs of the defining unit's graph with the ref's path.
TargetDefIdx == {k \in 1..Len(TargetGraph.Defs) : TargetGraph.Defs[k].Path = RawRef.DefPath}
TargetDocIdx == {k \in 1..Len(TargetGraph.Docs) : TargetGraph.Docs[k].Path = RawRef.DefPath}
Min(S) == CHOOSE x \in S : \A y \in S : x <= y
Max(S) == CHOOSE x \in S : \A y \in S : x >= y

\* The ref targets the current repository and the defining unit's graph
\* loads and holds a def with the ref's path.
LocalDefExists ==
    /\ Matched
    /\ TargetRepo = RepoURI
    /\ TargetGraph.status = "ok"
    /\ TargetDefIdx # {}

\* describe is past the local resolution of the matched ref.
Resolved == Matched /\ defSpec # <<>>

\* C7: if the matched ref targets the current repository and the defining
\* unit's graph holds a def with the ref's path, then once describe is past
\* local resolution resp.Def is that def (the first with the path), its file
\* absolute: the repository root followed by the def's cleaned file, and
\* its DocHTML the data of the graph's doc with that path (the last one,
\* empty when there is none); a response written carries this Def.
C7_LocalDefResolved ==
    (Resolved /\ LocalDefExists) =>
        LET d == TargetGraph.Defs[Min(TargetDefIdx)]
            got == resp.Def[1]
        IN  /\ Len(resp.Def) = 1
            /\ got.Def.Path = RawRef.DefPath
            /\ got.Def.Unit = TargetUnit /\ got.Def.UnitType = TargetUnitType
            /\ got.Def.Repo = d.Repo
            /\ IsAbs(got.Def.File)
            /\ got.Def.File = RootDir \o Clean(d.File)
            /\ got.DocHTML = IF TargetDocIdx = {} THEN ""
                             ELSE TargetGraph.Docs[Max(TargetDocIdx)].Data
            /\ (pc = "done" /\ err = "nil") =>
                   out = <<[kind |-> "resp", Def |-> resp.Def, Examples |-> resp.Examples]>>

\* A response was written whose Def comes from unit B while the ref is in
\* unit A, with a doc attached and a file that cleaning changed.
C7_Witness ==
    /\ pc = "done" /\ err = "nil"
    /\ LocalDefExists
    /\ RefUnit.Name = "A" /\ TargetUnit = "B"
    /\ Len(out) = 1
    /\ out[1].Def[1].DocHTML = "doc 2"
    /\ out[1].Def[1].Def.File = <<"/", "r", "b">>

\* The local lookup ran and found no def with the ref's path.
LocalLookupFoundNone ==
    /\ Matched
    /\ TargetRepo = RepoURI
    /\ TargetGraph.status = "ok"
    /\ TargetDefIdx = {}

\* describe is past the point where it starts the def fetch.
PastSpawnDef == Resolved /\ pc \notin {"resolve", "spawnDef"}

\* C8: with a matched ref, describe issues a remote def request only if no
\* local Def was resolved, and once past the point where the fetch starts it
\* has issued exactly one if the ref targets a foreign repository or the
\* local lookup found no def with the ref's path, and none if a local Def was
\* resolved.
C8_RemoteDefIffNoLocal ==
    /\ Len(ReqsOf("Defs.Get")) <= 1
    /\ Len(ReqsOf("Defs.Get")) = 1 =>
           Matched /\ (TargetRepo # RepoURI \/ LocalLookupFoundNone)
    /\ defTask # "idle" <=> Len(ReqsOf("Defs.Get")) = 1
    /\ PastSpawnDef =>
           (Len(ReqsOf("Defs.Get")) = 1 <=> (TargetRepo # RepoURI \/ LocalLookupFoundNone))
    /\ (PastSpawnDef /\ LocalDefExists) => ReqsOf("Defs.Get") = <<>>

\* The ref targets the current repository, the local lookup found no def and
\* the remote def request went out.
C8_Witness ==
    /\ LocalLookupFoundNone
    /\ Len(ReqsOf("Defs.Get")) = 1
    /\ pc = "done"

\* C9 (as the specification states it): if the matched ref targets the
\* current repository and the defining unit's graph artifact fails to open or
\* decode, describe returns no error, issues the remote def request and still
\* writes a response.
C9_TargetGraphFailureNotFatal ==
    ( /\ cmd = "describe"
      /\ pc = "done"
      /\ Matched
      /\ TargetRepo = RepoURI
      /\ TargetGraph.status # "ok" ) =>
        /\ err \notin {"GraphOpenErr", "GraphDecodeErr"}
        /\ Len(ReqsOf("Defs.Get")) = 1
        /\ err = "nil" => Len(out) = 1

\* The graph artifacts of the candidate units that load, in unit order, and
\* the refs in the queried file they hold.
RECURSIVE RefsOfLoadable(_)
RefsOfLoadable(j) ==
    IF j > Len(units) THEN <<>>
    ELSE (IF GraphOfUnit(j).status = "ok"
          THEN SelectSeq(GraphOfUnit(j).Refs, LAMBDA r : r.File = cFile)
          ELSE <<>>) \o RefsOfLoadable(j + 1)

\* C10 (as the specification states it): a candidate unit whose graph
\* artifact fails to open or decode is skipped by the scan: the query does not
\* end with that failure as its error, list writes the refs of the units that
\* load and describe matches a covering ref of a unit that loads.
C10_ScanSkipsFailedGraph ==
    ( /\ pc = "done"
      /\ LogHas(<<"units", "nil">>)
      /\ ~Matched
      /\ \E j \in 1..Len(units) : GraphOfUnit(j).status # "ok" ) =>
        /\ err \notin {"GraphOpenErr", "GraphDecodeErr"}
        /\ (cmd = "list" /\ err = "nil") => out = <<[kind |-> "refs", refs |-> RefsOfLoadable(1)]>>
        /\ cmd = "describe" => \A pl \in RefPlaces : ~CoversQuery(pl)

\* Both fetches were started and both have ended, exactly one with an error.
OneFetchFailed ==
    /\ defTask \in {"done", "failed"}
    /\ exTask \in {"done", "failed"}
    /\ (defTask = "failed") # (exTask = "failed")

\* C11: when the def fetch and the examples fetch both ran and exactly one of
\* them failed, in whichever order they ended, the response holds the result
\* of the one that succeeded and nothing for the one that failed, describe
\* returns no error on account of the failure (the one error it can still
\* return is that of writing the response) and a response written is this
\* one.
C11_PartialRemoteFailure ==
    OneFetchFailed =>
        /\ err \in {"nil", "EncodeErr"}
        /\ pc \in {"wait", "encode", "done"}
        /\ IF defTask = "done"
           THEN /\ Len(resp.Def) = 1
                /\ resp.Def[1].Def.Path = RawRef.DefPath
                /\ resp.Def[1].Def.Repo = TargetRepo
                /\ resp.Examples = <<>>
           ELSE /\ resp.Def = <<>>
                /\ Len(resp.Examples) >= 1
        /\ (pc = "done" /\ err = "nil") =>
               out = <<[kind |-> "resp", Def |-> resp.Def, Examples |-> resp.Examples]>>
        /\ (pc = "done" /\ err # "nil") => out = <<>>

\* The examples fetch failed first, the def fetch succeeded after it, and the
\* response written holds the Def and no examples.
C11_Witness ==
    /\ pc = "done" /\ err = "nil"
    /\ ended = <<"examples", "def">>
    /\ exTask = "failed" /\ defTask = "done"
    /\ Len(out) = 1
    /\ Len(out[1].Def) = 1
    /\ out[1].Examples = <<>>

Running(t) == t = "running"
Started(t) == t # "idle"
NumStarted == (IF Started(defTask) THEN 1 ELSE 0) + (IF Started(exTask) THEN 1 ELSE 0)

\* C12: one describe invocation starts at most two remote sub-operations, at
\* most one of each kind; each is started while the flow is at a spawn
\* statement, before the wait; the wait is passed only when none is running,
\* and while the response is encoded and once it is written none is running.
C12_FanOutAndBarrier ==
    /\ [](/\ Len(reqs) <= 2
          /\ Len(reqs) = NumStarted
          /\ Len(ReqsOf("Defs.Get")) <= 1
          /\ Len(ReqsOf("Defs.ListExamples")) <= 1
          /\ Len(ended) <= Len(reqs)
          /\ (pc = "encode" \/ out # <<>>) => (~Running(defTask) /\ ~Running(exTask)))
    /\ [][/\ reqs' # reqs => (pc \in {"spawnDef", "spawnExamples"} /\ pc' # "encode")
          /\ (pc = "wait" /\ pc' # "wait") =>
                 (~Running(defTask) /\ ~Running(exTask) /\ Len(ended) = Len(reqs))
          /\ out' # out => (ended' = ended /\ Len(ended) = Len(reqs))]_vars

\* Both fetches are under way at once while the flow waits at the barrier.
C12_Witness ==
    /\ pc = "wait"
    /\ Running(defTask) /\ Running(exTask)
    /\ Len(reqs) = 2

\* The four-part locator of the matched ref's target after defaulting.
TargetLocator ==
    [Repo |-> TargetRepo, UnitType |-> TargetUnitType, Unit |-> TargetUnit,
     Path |-> RawRef.DefPath]

\* describe is past the point where it starts the examples fetch.
PastSpawnExamples == Resolved /\ pc \in {"wait", "encode", "done"}

\* The local lookup loaded the graph of the unit the locator names: it is
\* the last artifact describe opened.
LocalLookupIn(loc) ==
    /\ Len(log) >= 1
    /\ log[Len(log)] = <<"graph", loc.Unit, loc.UnitType>>
    /\ Count("graph") = matchAt[1] + 1

\* C13: once describe, with a matched ref, is past the point where the
\* examples fetch starts, it has issued exactly one examples request if
\* examples are not suppressed and none if they are, whether the Def was
\* resolved locally or is fetched remotely; the request carries the target
\* locator after defaulting, the same one the def lookup used (the local
\* lookup's unit graph and path, the remote def request's locator); when
\* examples are suppressed no examples request is ever issued and the
\* response's examples are empty.
C13_ExamplesIffNotSuppressed ==
    /\ Len(ReqsOf("Defs.ListExamples")) <= 1
    /\ exTask # "idle" <=> Len(ReqsOf("Defs.ListExamples")) = 1
    /\ PastSpawnExamples => (Len(ReqsOf("Defs.ListExamples")) = 1 <=> ~NoExamples)
    /\ Len(ReqsOf("Defs.ListExamples")) = 1 =>
           /\ Matched /\ ~NoExamples
           /\ ReqsOf("Defs.ListExamples")[1].spec = TargetLocator
           /\ \A j \in 1..Len(reqs) : reqs[j].spec = TargetLocator
           /\ TargetRepo = RepoURI => LocalLookupIn(TargetLocator)
    /\ NoExamples =>
           /\ ReqsOf("Defs.ListExamples") = <<>>
           /\ resp.Examples = <<>>
           /\ \A j \in 1..Len(out) : out[j].kind = "resp" => out[j].Examples = <<>>

\* The Def was resolved locally, no def request was issued, and the examples
\* request went out with the target locator.
C13_Witness ==
    /\ PastSpawnExamples /\ ~NoExamples
    /\ LocalDefExists /\ defTask = "idle"
    /\ Len(reqs) = 1
    /\ reqs[1] = Request("Defs.ListExamples", TargetLocator)

\* C14: the matched ref as describe holds it, the locator it resolves and
\* every request it issues name the referencing unit (the unit whose graph
\* was being scanned when the ref matched) where the ref's defining-unit
\* name is empty and the referencing unit's type where the ref's
\* defining-unit type is empty, each field on its own; a non-empty field is
\* as the ref gives it.
C14_UnitDefaulting ==
    Matched =>
        LET name == IF RawRef.DefUnit = "" THEN RefUnit.Name ELSE RawRef.DefUnit
            type == IF RawRef.DefUnitType = "" THEN RefUnit.Type ELSE RawRef.DefUnitType
        IN  /\ RefUnit = units[Count("graph") - (IF LocalLookupIn(TargetLocator) THEN 1 ELSE 0)]
            /\ ref[1].DefUnit = name /\ ref[1].DefUnitType = type
            /\ Resolved => (defSpec[1].Unit = name /\ defSpec[1].UnitType = type)
            /\ \A j \in 1..Len(reqs) :
                   reqs[j].spec.Unit = name /\ reqs[j].spec.UnitType = type

\* The ref matched in the second candidate unit has empty defining-unit
\* fields and the locator names that unit.
C14_Witness ==
    /\ Resolved
    /\ matchAt[1] = 2
    /\ RawRef.DefUnit = "" /\ RawRef.DefUnitType = ""
    /\ defSpec[1].Unit = units[2].Name /\ defSpec[1].UnitType = units[2].Type
    /\ units[2] # units[1]

\* describe is past the statement that decides between local and remote.
PastResolve == Matched /\ pc \notin {"scan", "resolve"}

\* C15: where the matched ref's defining repository is empty the locator
\* describe resolves and every request carry the current repository's
\* identifier and local resolution is attempted: the defining unit's graph
\* is loaded; a non-empty defining repository is carried unchanged, and for a
\* foreign one no local resolution is attempted.
C15_RepoDefaulting ==
    /\ Resolved =>
           /\ defSpec[1].Repo = (IF RawRef.DefRepo = "" THEN RepoURI ELSE RawRef.DefRepo)
           /\ ref[1].DefRepo = defSpec[1].Repo
           /\ \A j \in 1..Len(reqs) : reqs[j].spec.Repo = defSpec[1].Repo
    /\ PastResolve =>
           IF RawRef.DefRepo \in {"", RepoURI}
           THEN /\ LocalLookupIn(TargetLocator)
                /\ ref[1].DefRepo = RepoURI
                /\ TargetGraph.status = "ok" => Resolved
           ELSE /\ Count("graph") = matchAt[1]
                /\ Resolved

\* A ref with an empty defining repository was resolved locally into a Def.
C15_Witness ==
    /\ Resolved
    /\ RawRef.DefRepo = ""
    /\ defSpec[1].Repo = RepoURI
    /\ LocalLookupIn(TargetLocator)
    /\ Len(resp.Def) = 1 /\ defTask = "idle"

\* The manifests of the store's walk, in the walk's order, and among them
\* those of the units with a member file that is, once cleaned, the queried
\* file (cFile is the cleaned path relative to the repository root).
ManifestIdx == {j \in 1..Len(walk) : walk[j].suffix = UnitSuffix}
ListsFile(u) == \E k \in 1..Len(u.Files) : Clean(u.Files[k]) = Clean(cFile)
ContainingIdx == {j \in ManifestIdx : ListsFile(walk[j].unit)}
RECURSIVE UnitsFrom(_)
UnitsFrom(j) ==
    IF j > Len(walk) THEN <<>>
    ELSE (IF j \in ContainingIdx THEN <<walk[j].unit>> ELSE <<>>) \o UnitsFrom(j + 1)

\* The refs of the graphs of the given units, unit after unit, each graph's
\* refs in the artifact's order, that are in the queried file.
RECURSIVE RefsOfUnits(_)
RefsOfUnits(us) ==
    IF us = <<>> THEN <<>>
    ELSE LET g == graphs[<<Head(us).Name, Head(us).Type>>]
         IN  [j \in 1..Cardinality({k \in 1..Len(g.Refs) : g.Refs[k].File = cFile}) |->
                 g.Refs[CHOOSE k \in 1..Len(g.Refs) :
                     /\ g.Refs[k].File = cFile
                     /\ Cardinality({m \in 1..k : g.Refs[m].File = cFile}) = j]]
             \o RefsOfUnits(Tail(us))

\* list returned without an error.
ListReturned == cmd = "list" /\ pc = "done" /\ err = "nil"

\* C16: when list returns without an error it has written one document, the
\* list of exactly the refs whose file is the queried file, of every unit
\* containing the file, whatever their spans, in the order the units were
\* visited and within a unit in the order of its graph artifact; the list may
\* be empty.
C16_ListRefsExact ==
    ListReturned =>
        /\ out = <<[kind |-> "refs", refs |-> RefsOfUnits(UnitsFrom(1))]>>
        /\ \A j \in 1..Len(out[1].refs) : out[1].refs[j].File = cFile

\* list wrote refs of two units, one of them a ref whose span does not hold
\* offset 0, and left out a ref in another file.
C16_Witness ==
    /\ ListReturned
    /\ Len(units) = 2
    /\ Len(out[1].refs) >= 2
    /\ out[1].refs[1] \in {GraphOfUnit(1).Refs[k] : k \in 1..Len(GraphOfUnit(1).Refs)}
    /\ out[1].refs[Len(out[1].refs)] \in
           {GraphOfUnit(2).Refs[k] : k \in 1..Len(GraphOfUnit(2).Refs)}
    /\ \E j \in 1..Len(out[1].refs) : out[1].refs[j].Start > 0
    /\ \E k \in 1..Len(GraphOfUnit(1).Refs) : GraphOfUnit(1).Refs[k].File # cFile

\* The lookup of the units ran.
UnitsLookedUp == Count("units") = 1
AllManifestsLoad == \A j \in ManifestIdx : walk[j].status = "ok"

\* C17: when every unit manifest of the store loads, the lookup returns
\* without an error the units with a member file that is, after path
\* normalization, the queried file: all of them, in the walk's order, each
\* once per manifest however many times it lists the file, and none when no
\* unit lists the file; a lookup that returns without an error returns these.
C17_UnitsContaining ==
    UnitsLookedUp =>
        /\ AllManifestsLoad => LogHas(<<"units", "nil">>)
        /\ LogHas(<<"units", "nil">>) =>
               /\ units = UnitsFrom(1)
               /\ Len(units) = Cardinality(ContainingIdx)
               /\ \A j \in ManifestIdx :
                      Cardinality({k \in 1..Len(units) : units[k] = walk[j].unit})
                          = (IF j \in ContainingIdx THEN 1 ELSE 0)
               /\ ContainingIdx = {} => units = <<>>

\* Two units were returned, the first listing the file twice, the second
\* found after the first.
C17_Witness ==
    /\ LogHas(<<"units", "nil">>)
    /\ Len(units) = 2
    /\ Cardinality({k \in 1..Len(units[1].Files) : Clean(units[1].Files[k]) = cFile}) = 2
    /\ units[2] # units[1]

\* The lookup found no unit and returned without an error.
C17_WitnessEmpty ==
    /\ LogHas(<<"units", "nil">>)
    /\ ManifestIdx # {}
    /\ units = <<>>

\* Both runs of list returned without an error.
BothRunsReturned == run = 2 /\ ListReturned /\ Len(prev) = 1 /\ prev[1].err = "nil"

Building(c) == callers[c].pc \in {"configure", "make"}

\* C19: ensureBuild never makes a caller wait for another: a caller at the
\* existence check can always take it, a caller that checks while the commit
\* is not in the store goes on to configure even while the other caller is
\* building, a caller in configure or make can always run it, and a caller
\* that saw the commit absent runs configure whatever the store holds by
\* then.
C19_NoMutualExclusion ==
    \A c \in Callers :
        /\ callers[c].pc = "ensureBuild" => ENABLED RaceStat(c)
        /\ (callers[c].pc = "ensureBuild" /\ commitDir = "absent") =>
               ENABLED (RaceStat(c) /\ callers'[c].pc = "configure")
        /\ callers[c].pc = "configure" =>
               (callers[c].stat = "notexist" /\ ENABLED RaceConfigure(c))
        /\ callers[c].pc = "make" => ENABLED RaceMake(c)

\* Both callers saw the commit absent before either configured, both ran
\* configure, and both are now about to run make.
C19_Witness ==
    /\ log = <<<<"stat", "notexist", 1>>, <<"stat", "notexist", 2>>,
               <<"configure", "nil", 1>>, <<"configure", "nil", 2>>>>
    /\ \A c \in Callers : callers[c].pc = "make" /\ callers[c].stat = "notexist"
    /\ \A c \in Callers : Building(c)

\* A remote call describe started has not returned.
RemotePending == Running(defTask) \/ Running(exTask)

\* describe returned after the barrier: with the response written, or with
\* the error of writing it.
Responded ==
    /\ pc = "done"
    /\ err \in {"nil", "EncodeErr"}
    /\ err = "nil" => (Len(out) = 1 /\ out[1].kind = "resp")

\* C20: when every remote call describe started returns, with a result or
\* with an error, describe, once it has resolved the matched ref's locator,
\* goes on to return with its response written (or with the error of writing
\* it); and as long as a remote call has not returned describe stays at the
\* barrier: no step of Execute is possible, there being no timeout.
C20_RespondsIfRemoteReturns ==
    /\ (Resolved /\ pc # "done") ~> Responded
    /\ []((pc = "wait" /\ RemotePending) => ~ENABLED DescribeFlow)
    /\ [][(pc = "wait" /\ RemotePending) => pc' = "wait"]_vars

\* describe is blocked at the barrier with both remote calls pending.
C20_Witness ==
    /\ pc = "wait"
    /\ Running(defTask) /\ Running(exTask)
    /\ ended = <<>>
    /\ ~ENABLED DescribeFlow

\* The run before this one ended with a failed build step.
PrevBuildFailed == run = 2 /\ Len(prev) = 1 /\ prev[1].err \in {"ConfigErr", "MakeErr"}

\* This run's existence check has been made.
Checked == Len(log) >= 1

\* What follows the existence check in this run: configure (about to run or
\* run) or make directly.
ConfigureFollows ==
    IF Len(log) = 1 THEN pc = "configure" ELSE log[2][1] = "configure"
MakeFollows ==
    IF Len(log) = 1 THEN pc = "make" ELSE log[2][1] = "make"

\* C21: in the invocation after another one, whatever the first returned,
\* and in particular after a failed build, the existence check alone decides
\* about configure: if the first run left the commit's artifact root absent
\* the check reports it absent and configure runs, then make if configure
\* succeeds; if it left the root in the store the check does not report it
\* absent, configure is not run and make runs directly.
C21_ConfigureAfterFailedBuild ==
    (run = 2 /\ Checked) =>
        /\ log[1] = <<"stat", Stat(prev[1].dir)>>
        /\ IF prev[1].dir = "absent"
           THEN ConfigureFollows /\ ~MakeFollows
           ELSE MakeFollows /\ Count("configure") = 0

\* The first run's make failed and left the commit's root in the store; the
\* second run went from the check to make without configuring.
C21_Witness ==
    /\ PrevBuildFailed
    /\ prev[1].err = "MakeErr" /\ prev[1].dir = "present"
    /\ log = <<<<"stat", "ok">>, <<"make", "nil">>>>

\* The first run's configure failed and left the commit's root absent; the
\* second run configured again.
C21_WitnessAbsent ==
    /\ PrevBuildFailed
    /\ prev[1].dir = "absent"
    /\ log = <<<<"stat", "notexist">>, <<"configure", "nil">>>>

\* The graph artifacts describe has opened, in order, as <<name, type>>.
GraphLoads ==
    LET ev == SelectSeq(log, LAMBDA e : e[1] = "graph")
    IN  [j \in 1..Len(ev) |-> <<ev[j][2], ev[j][3]>>]

\* The candidate units after the one in which the ref matched.
LaterUnits == {j \in 1..Len(units) : j > matchAt[1]}

DefFetchEnds == Running(defTask) /\ ~Running(defTask')
ExamplesFetchEnds == Running(exTask) /\ ~Running(exTask')

\* What Execute's own goroutine holds: its position, result and requests.
mainState == <<pc, err, out, log, scan, defSpec, reqs>>

\* C23: the step that ends the def fetch changes the response's Def only: it
\* leaves the Examples, the examples fetch and everything Execute's goroutine
\* holds as they are, and likewise the step that ends the examples fetch
\* changes the Examples only; after local resolution the response changes in
\* these two steps only; and a Def resolved locally is never replaced: no def
\* fetch is started and every later step leaves the Def as it is.
C23_FetchesShareNoState ==
    /\ [][/\ DefFetchEnds =>
                 /\ resp'.Examples = resp.Examples
                 /\ exTask' = exTask
                 /\ mainState' = mainState
          /\ ExamplesFetchEnds =>
                 /\ resp'.Def = resp.Def
                 /\ defTask' = defTask
                 /\ mainState' = mainState
          /\ resp'.Def # resp.Def => (pc = "resolve" \/ DefFetchEnds)
          /\ resp'.Examples # resp.Examples => ExamplesFetchEnds
          /\ (Resolved /\ resp.Def # <<>> /\ defTask = "idle") =>
                 (resp'.Def = resp.Def /\ defTask' = "idle")]_vars
    /\ []((Resolved /\ LocalDefExists) => (defTask = "idle" /\ Len(resp.Def) = 1))

\* Both fetches ran at once and ended, the examples fetch first, and the
\* response holds the result of each.
C23_Witness ==
    /\ ended = <<"examples", "def">>
    /\ defTask = "done" /\ exTask = "done"
    /\ Len(resp.Def) = 1
    /\ Len(resp.Examples) >= 1
    /\ reqs[1].op = "Defs.Get" /\ reqs[2].op = "Defs.ListExamples"

\* describe has returned.
DescribeReturned == cmd = "describe" /\ pc = "done"

\* C24: a describe invocation writes nothing before it returns and at most
\* one document in all: when it returns without an error exactly one, the
\* empty object if no ref matched and the Def/Examples response if one did;
\* when it returns an error from path handling, the build, the unit lookup or
\* graph loading, none.  So the empty object is written only by an
\* invocation that succeeded and found no ref.
C24_OneDocumentOrError ==
    cmd = "describe" =>
        /\ Len(out) <= 1
        /\ pc # "done" => out = <<>>
        /\ (DescribeReturned /\ err = "nil") =>
               /\ Len(out) = 1
               /\ out[1] = (IF Matched THEN [kind |-> "resp", Def |-> resp.Def,
                                             Examples |-> resp.Examples]
                            ELSE [kind |-> "empty"])
        /\ (DescribeReturned /\ err \notin {"nil", "EncodeErr"}) => out = <<>>
        /\ \A j \in 1..Len(out) :
               out[j].kind = "empty" =>
                   (err = "nil" /\ ~Matched /\ LogHas(<<"units", "nil">>))

\* describe matched a ref, failed to load the graph of its defining unit and
\* returned that error having written nothing.
C24_Witness ==
    /\ DescribeReturned
    /\ Matched
    /\ err \in {"GraphOpenErr", "GraphDecodeErr"}
    /\ out = <<>>

=============================================================================
